---- MODULE Spec2Model ----
(***************************************************************************)
(* Model of scripts/check-propagation.js: the resolver fan-out             *)
(* (checkDNSServer, checkPropagation), the poll loop (monitorPropagation)  *)
(* and the command line (main); and of the record checks of verifyDNS.     *)
(*                                                                         *)
(* JavaScript runs every callback and every continuation of an async       *)
(* function to completion, so each action below is one such run: the call  *)
(* of a function up to its first suspension, the callback of one DNS       *)
(* query, the continuation after an await, or the timer callback.          *)
(***************************************************************************)
EXTENDS Integers, Sequences, FiniteSets, TLC

\* Largest maxAttempts the poll loop is called with.
MaxAttemptsBound == 2

\* The JavaScript value undefined (an absent property).
Undefined == "undefined"

DNS_SERVERS ==
  << [name |-> "Google",               ip |-> "8.8.8.8"],
     [name |-> "Google Secondary",     ip |-> "8.8.4.4"],
     [name |-> "Cloudflare",           ip |-> "1.1.1.1"],
     [name |-> "Cloudflare Secondary", ip |-> "1.0.0.1"],
     [name |-> "OpenDNS",              ip |-> "208.67.222.222"],
     [name |-> "Quad9",                ip |-> "9.9.9.9"] >>

ServerIndex == 1..Len(DNS_SERVERS)

\* String.prototype.toUpperCase on the second command-line arguments used
\* here.
toUpperCase(str) ==
  CASE str = "a"           -> "A"
    [] str = "aaaa"        -> "AAAA"
    [] str = "cname"       -> "CNAME"
    [] str = "mx"          -> "MX"
    [] str = "txt"         -> "TXT"
    [] str = "ns"          -> "NS"
    [] str = "srv"         -> "SRV"
    [] str = "constructor" -> "CONSTRUCTOR"
    [] str = "--monitor"   -> "--MONITOR"
    [] OTHER               -> str

\* Second command-line arguments: absent, the documented types in either
\* case, a type outside the lookup table, and a property name that every
\* JavaScript object inherits.
RecordTypeArgs ==
  {Undefined, "A", "aaaa", "CNAME", "mx", "TXT", "ns", "SRV", "constructor"}

\* args[1]?.toUpperCase() || 'A'
mainRecordType(arg) ==
  IF arg = Undefined \/ toUpperCase(arg) = "" THEN "A" ELSE toUpperCase(arg)

\* The record types that reach checkPropagation and monitorPropagation:
\* main is their only caller.
RecordTypes == {mainRecordType(arg) : arg \in RecordTypeArgs}

\* Property names an object literal inherits from Object.prototype; a
\* lookup of one of them yields a function, not undefined.
ObjectPrototypeKeys ==
  {"constructor", "toString", "valueOf", "hasOwnProperty", "isPrototypeOf",
   "propertyIsEnumerable", "toLocaleString", "__proto__"}

Inherited == "[inherited]"

\* Defaults of the parameters intervalSeconds and maxAttempts.
DefaultIntervalSeconds == 30
DefaultMaxAttempts == 20

\* Command lines (process.argv.slice(2)): no argument, a domain, a domain
\* with a record type, and --monitor after the type, directly after the
\* domain, or alone.
MainArgs ==
  { << >>,
    << "mydomain.com" >>,
    << "mydomain.com", "cname" >>,
    << "mydomain.com", "SRV" >>,
    << "mydomain.com", "--monitor" >>,
    << "mydomain.com", "A", "--monitor" >>,
    << "mydomain.com", "cname", "--monitor" >>,
    << "--monitor" >> }

\* args[i], undefined beyond the end of the array.
ArgAt(args, i) == IF i + 1 <= Len(args) THEN args[i + 1] ELSE Undefined

\* The flag looked for in the record-type position only.
mainMonitorAtTwo(args) == ArgAt(args, 2) = "--monitor"

\* args.includes('--monitor')
mainMonitor(args) == \E k \in 1..Len(args) : args[k] = "--monitor"

\* Poll intervals (seconds) the poll loop is called with; 30 is the default.
Intervals == {1, 30}

\* Attempt budgets the poll loop is called with.
AttemptBudgets == 0..MaxAttemptsBound

\* The methods of dns.Resolver the script can select.
ResolverMethods ==
  {"resolve4", "resolve6", "resolveCname", "resolveMx", "resolveTxt", "resolveNs"}

resolveMethodTable ==
  [A |-> "resolve4", AAAA |-> "resolve6", CNAME |-> "resolveCname",
   MX |-> "resolveMx", TXT |-> "resolveTxt", NS |-> "resolveNs"]

\* The lookup without the `|| 'resolve4'` fallback.
resolveMethodNoFallback(recordType) ==
  IF recordType \in DOMAIN resolveMethodTable
  THEN resolveMethodTable[recordType]
  ELSE Undefined

\* { A: 'resolve4', ... }[recordType] || 'resolve4'
resolveMethod(recordType) ==
  IF recordType \in DOMAIN resolveMethodTable
  THEN resolveMethodTable[recordType]
  ELSE IF recordType \in ObjectPrototypeKeys
       THEN Inherited
       ELSE "resolve4"

(***************************************************************************)
(* What a DNS server can answer.  An element of a result array is a string *)
(* or an object (an MX entry, a TXT chunk array); json is what             *)
(* JSON.stringify gives for it.                                            *)
(***************************************************************************)
Str(s) == [typeof |-> "string", text |-> s, json |-> "\"" \o s \o "\""]
Obj(j) == [typeof |-> "object", text |-> "[object Object]", json |-> j]

RecordsOf(method) ==
  CASE method = "resolve4"     -> << Str("93.184.216.34"), Str("93.184.216.35") >>
    [] method = "resolve6"     -> << Str("2606:2800:220:1::1") >>
    [] method = "resolveCname" -> << Str("site.vercel.app") >>
    [] method = "resolveMx"    -> << Obj("{\"exchange\":\"mx.example.org\",\"priority\":10}") >>
    [] method = "resolveTxt"   -> << Obj("[\"v=spf1 ~all\"]") >>
    [] method = "resolveNs"    -> << Str("ns1.example.org"), Str("ns2.example.org") >>

NoRecords == << >>

\* A resolution either yields records or fails; a failure has a message and
\* usually a code (ENOTFOUND), but an error without a code is possible.
ResolverAnswers(method) ==
  { [kind |-> "records", records |-> RecordsOf(method),
     code |-> Undefined, message |-> Undefined],
    [kind |-> "error", records |-> NoRecords,
     code |-> "ENOTFOUND", message |-> "query ENOTFOUND"],
    [kind |-> "error", records |-> NoRecords,
     code |-> Undefined, message |-> "Timeout"] }

RECURSIVE Join(_, _)
Join(strs, sep) ==
  IF Len(strs) = 0 THEN ""
  ELSE IF Len(strs) = 1 THEN strs[1]
  ELSE strs[1] \o sep \o Join(Tail(strs), sep)

\* result.map(r => typeof r === 'object' ? JSON.stringify(r) : r).join(', ')
FormatResult(records) ==
  Join([i \in 1..Len(records) |->
          IF records[i].typeof = "object" THEN records[i].json
          ELSE records[i].text], ", ")

\* error.code || error.message
ErrorReason(answer) ==
  IF answer.code /= Undefined /\ answer.code /= "" THEN answer.code
  ELSE answer.message

\* The slot of a probe whose promise has not settled.
Pending == [server |-> Undefined, success |-> FALSE,
            value |-> Undefined, error |-> Undefined]

\* checkDNSServer with the catch clause missing: the error escapes.
checkDNSServerNoCatch(server, answer) ==
  IF answer.kind = "records"
  THEN [status |-> "fulfilled",
        value  |-> [server |-> server.name, success |-> TRUE,
                    value |-> FormatResult(answer.records), error |-> Undefined]]
  ELSE [status |-> "rejected", value |-> Pending]

\* How the promise of checkDNSServer settles once the query is answered.
checkDNSServer(server, answer) ==
  IF answer.kind = "records"
  THEN [status |-> "fulfilled",
        value  |-> [server |-> server.name, success |-> TRUE,
                    value |-> FormatResult(answer.records), error |-> Undefined]]
  ELSE [status |-> "fulfilled",
        value  |-> [server |-> server.name, success |-> FALSE,
                    value |-> Undefined, error |-> ErrorReason(answer)]]

(***************************************************************************)
(* Promise.all over the probes: the values array is filled by index as the *)
(* element promises fulfil, and the combined promise fulfils when no slot  *)
(* is left.                                                                *)
(***************************************************************************)
\* Values kept in the order the promises settle instead of by index.
StoreOutcomeByArrival(values, i, outcome) ==
  LET free == {j \in DOMAIN values : values[j] = Pending}
      slot == CHOOSE j \in free : \A k \in free : j <= k
  IN  [values EXCEPT ![slot] = outcome]

StoreOutcome(values, i, outcome) == [values EXCEPT ![i] = outcome]

\* Promise.race-like: the combined promise fulfils on the first settlement.
AnySettled(values) == \E i \in DOMAIN values : values[i] /= Pending

AllSettled(values) == \A i \in DOMAIN values : values[i] /= Pending

\* Math.round(propagated / total) * 100: rounded before the scaling.
PercentageRoundFirst(propagated, total) ==
  ((2 * propagated + total) \div (2 * total)) * 100

\* Rounding down instead of Math.round.
PercentageFloor(propagated, total) == (100 * propagated) \div total

\* Math.round((propagated / total) * 100): nearest integer, halves go up.
Percentage(propagated, total) == (200 * propagated + total) \div (2 * total)

\* A summary with two branches only: anything below 100 is "partially".
VerdictTwoWay(percentage) ==
  IF percentage = 100 THEN "fully propagated"
  ELSE "partially propagated"

\* The summary line printed after the percentage.
Verdict(percentage) ==
  IF percentage = 100 THEN "fully propagated"
  ELSE IF percentage >= 50 THEN "partially propagated"
  ELSE "not yet propagated"

\* The guidance that ends the summary line.
Advice(percentage) ==
  IF percentage = 100 THEN "none"
  ELSE IF percentage >= 50 THEN "Wait a few minutes..."
  ELSE "This may take up to 48 hours."

NoReport == [propagated |-> -1, total |-> -1, percentage |-> -1,
             results |-> << >>, verdict |-> Undefined, advice |-> Undefined]

\* The tail of checkPropagation, after the await.
MakeReport(values) ==
  LET propagated == Cardinality({i \in DOMAIN values : values[i].success})
      total      == Len(values)
      percentage == Percentage(propagated, total)
  IN  [propagated |-> propagated, total |-> total, percentage |-> percentage,
       results |-> values, verdict |-> Verdict(percentage),
       advice |-> Advice(percentage)]

\* Loop exit test with the comparison negated.
ConvergedNever(percentage) == percentage > 100

\* Loop exit test that accepts a partial result.
ConvergedAtHalf(percentage) == percentage >= 50

\* percentage === 100
Converged(percentage) == percentage = 100

\* The wait is also taken after the final attempt.
ShouldWaitAlways(attempt, maxAttempts) == attempt <= maxAttempts

\* The wait is never taken.
ShouldWaitNever(attempt, maxAttempts) == attempt > maxAttempts

\* attempt < maxAttempts
ShouldWait(attempt, maxAttempts) == attempt < maxAttempts

\* The delay handed to setTimeout without the conversion to milliseconds.
TimerDelaySeconds(intervalSeconds) == intervalSeconds

\* intervalSeconds * 1000
TimerDelay(intervalSeconds) == intervalSeconds * 1000

(***************************************************************************)
(* State.                                                                  *)
(***************************************************************************)
VARIABLES
  pc,              \* where the called function stands: "idle", "await_all",
                   \* "monitor_resume", "wait", "done", "rejected"
  entry,           \* the function that was called
  recordType,      \* parameter recordType
  intervalSeconds, \* parameter intervalSeconds of monitorPropagation
  maxAttempts,     \* parameter maxAttempts of monitorPropagation
  attempt,         \* loop variable of monitorPropagation
  inflight,        \* DNS queries sent and not yet answered
  results,         \* values array of the pending Promise.all
  report,          \* return value of the last checkPropagation, or NoReport
  retval,          \* what the called function returned: "none", "report",
                   \* "true", "false"
  timer,           \* delay in ms of the pending setTimeout, 0 when none
  rounds,          \* history: number of fan-out rounds started
  waits,           \* history: number of timer waits that elapsed
  belowCount,      \* history: number of rounds that reported less than 100
  answers,         \* history: kind of answer each probe of the round got
  argv,            \* command-line arguments when main was run, else NoArgv
  vpending,        \* verifyDNS: record type of the query awaited, or "none"
  vresults,        \* verifyDNS: the results array
  vstarted,        \* history: record types verifyDNS has queried, in order
  vanswers,        \* history: the answers those queries got, in order
  sent,            \* history: queries sent to each server in the round
  issued,          \* history: queries sent since the call
  outOfOrder       \* history: some probe of the round finished before a
                   \* probe of an earlier declared server

vars == << pc, entry, recordType, intervalSeconds, maxAttempts, attempt,
           inflight, results, report, retval, timer, rounds, waits,
           belowCount, answers, argv, sent, issued, outOfOrder,
           vpending, vresults, vstarted, vanswers >>

\* The state of verifyDNS, and the state of everything else.
verifyVars == << vpending, vresults, vstarted, vanswers >>

fanOutVars == << recordType, intervalSeconds, maxAttempts, attempt, inflight,
                 results, report, timer, rounds, waits, belowCount, answers,
                 argv, sent, issued, outOfOrder >>

NoValues == [i \in ServerIndex |-> Pending]
NoAnswers == [i \in ServerIndex |-> "none"]
NoneSent == [i \in ServerIndex |-> 0]
NoArgv == << Undefined >>

Init ==
  /\ pc = "idle"
  /\ entry = "none"
  /\ recordType = Undefined
  /\ intervalSeconds = 0
  /\ maxAttempts = 0
  /\ attempt = 0
  /\ inflight = {}
  /\ results = NoValues
  /\ report = NoReport
  /\ retval = "none"
  /\ timer = 0
  /\ rounds = 0
  /\ waits = 0
  /\ belowCount = 0
  /\ answers = NoAnswers
  /\ vpending = "none"
  /\ vresults = << >>
  /\ vstarted = << >>
  /\ vanswers = << >>
  /\ argv = NoArgv
  /\ sent = NoneSent
  /\ issued = 0
  /\ outOfOrder = FALSE

\* The map starting at the second server.
ProbesSkipFirst(round, rt) ==
  { [round |-> round, index |-> i, ip |-> DNS_SERVERS[i].ip,
     method |-> resolveMethod(rt)] : i \in ServerIndex \ {1} }

\* The queries DNS_SERVERS.map(...) sends: one per server, each to that
\* server's address only, all within the same synchronous run.
Probes(round, rt) ==
  { [round |-> round, index |-> i, ip |-> DNS_SERVERS[i].ip,
     method |-> resolveMethod(rt)] : i \in ServerIndex }

\* checkPropagation up to `await Promise.all(...)`.  A method name that is
\* not a method of the resolver makes `resolver[resolveMethod].bind` throw
\* before any query is sent, which rejects the whole call.
BeginFanOut(rt) ==
  /\ rounds' = rounds + 1
  /\ report' = NoReport
  /\ results' = NoValues
  /\ answers' = NoAnswers
  /\ outOfOrder' = FALSE
  /\ IF resolveMethod(rt) \in ResolverMethods
     THEN /\ inflight' = inflight \cup Probes(rounds + 1, rt)
          /\ sent' = [i \in ServerIndex |->
                       Cardinality({p \in Probes(rounds + 1, rt) : p.index = i})]
          /\ issued' = issued + Cardinality(Probes(rounds + 1, rt))
          /\ pc' = "await_all"
     ELSE /\ inflight' = inflight
          /\ sent' = NoneSent
          /\ issued' = issued
          /\ pc' = "rejected"

\* One evaluation of the for-loop header with attempt = a, followed by the
\* body up to its first await, or by the code after the loop.
LoopIteration(a, rt, m) ==
  /\ attempt' = a
  /\ IF a <= m
     THEN /\ BeginFanOut(rt)
          /\ retval' = retval
     ELSE /\ pc' = "done"
          /\ retval' = "false"
          /\ UNCHANGED << inflight, results, report, rounds, answers, sent,
                          issued, outOfOrder >>

\* checkPropagation(domain, recordType) is called.
CheckPropagation(rt) ==
  /\ pc = "idle"
  /\ UNCHANGED verifyVars
  /\ entry' = "checkPropagation"
  /\ recordType' = rt
  /\ BeginFanOut(rt)
  /\ UNCHANGED << intervalSeconds, maxAttempts, attempt, retval, timer,
                  waits, belowCount, argv >>

\* monitorPropagation(domain, recordType, intervalSeconds, maxAttempts) is
\* called.
MonitorPropagation(rt, iv, m) ==
  /\ pc = "idle"
  /\ UNCHANGED verifyVars
  /\ entry' = "monitorPropagation"
  /\ recordType' = rt
  /\ intervalSeconds' = iv
  /\ maxAttempts' = m
  /\ LoopIteration(1, rt, m)
  /\ UNCHANGED << timer, waits, belowCount, argv >>

\* main runs with the command line args: it calls monitorPropagation with
\* the default interval and attempt budget when --monitor is among the
\* arguments, and checkPropagation otherwise.
Main(args) ==
  /\ pc = "idle"
  /\ UNCHANGED verifyVars
  /\ argv' = args
  /\ recordType' = mainRecordType(ArgAt(args, 1))
  /\ IF mainMonitor(args)
     THEN /\ entry' = "monitorPropagation"
          /\ intervalSeconds' = DefaultIntervalSeconds
          /\ maxAttempts' = DefaultMaxAttempts
          /\ LoopIteration(1, recordType', DefaultMaxAttempts)
     ELSE /\ entry' = "checkPropagation"
          /\ BeginFanOut(recordType')
          /\ UNCHANGED << intervalSeconds, maxAttempts, attempt, retval >>
  /\ UNCHANGED << timer, waits, belowCount >>

\* The answer to one query arrives: checkDNSServer finishes, its promise
\* settles and Promise.all takes the value.
ProbeComplete(p, answer) ==
  /\ p \in inflight
  /\ UNCHANGED verifyVars
  /\ answer \in ResolverAnswers(p.method)
  /\ inflight' = inflight \ {p}
  /\ LET settled == checkDNSServer(DNS_SERVERS[p.index], answer)
     IN  IF p.round = rounds /\ pc = "await_all"
         THEN /\ answers' = [answers EXCEPT ![p.index] = answer.kind]
              /\ IF settled.status = "fulfilled"
                 THEN /\ results' = StoreOutcome(results, p.index, settled.value)
                      /\ outOfOrder' =
                           (outOfOrder \/ \E j \in ServerIndex :
                                            j < p.index /\ results[j] = Pending)
                      /\ pc' = pc
                 ELSE /\ pc' = "rejected"
                      /\ UNCHANGED << results, outOfOrder >>
         ELSE UNCHANGED << answers, results, outOfOrder, pc >>
  /\ UNCHANGED << entry, recordType, intervalSeconds, maxAttempts, attempt,
                  report, retval, timer, rounds, waits, belowCount, argv,
                  sent, issued >>

\* Promise.all has fulfilled: checkPropagation resumes, prints, computes the
\* report and returns it.
CheckPropagationResume ==
  /\ pc = "await_all"
  /\ UNCHANGED verifyVars
  /\ AllSettled(results)
  /\ report' = MakeReport(results)
  /\ belowCount' = IF report'.percentage < 100 THEN belowCount + 1 ELSE belowCount
  /\ IF entry = "monitorPropagation"
     THEN pc' = "monitor_resume" /\ retval' = retval
     ELSE pc' = "done" /\ retval' = "report"
  /\ UNCHANGED << entry, recordType, intervalSeconds, maxAttempts, attempt,
                  inflight, results, timer, rounds, waits, answers, argv,
                  sent, issued, outOfOrder >>

\* monitorPropagation resumes with the report of the round.
MonitorResume ==
  /\ pc = "monitor_resume"
  /\ UNCHANGED verifyVars
  /\ IF Converged(report.percentage)
     THEN /\ pc' = "done"
          /\ retval' = "true"
          /\ UNCHANGED << attempt, inflight, results, report, rounds, answers,
                          sent, issued, outOfOrder, timer >>
     ELSE IF ShouldWait(attempt, maxAttempts)
          THEN /\ pc' = "wait"
               /\ timer' = TimerDelay(intervalSeconds)
               /\ UNCHANGED << attempt, inflight, results, report, rounds,
                               answers, sent, issued, outOfOrder, retval >>
          ELSE /\ LoopIteration(attempt + 1, recordType, maxAttempts)
               /\ timer' = timer
  /\ UNCHANGED << entry, recordType, intervalSeconds, maxAttempts, waits,
                  belowCount, argv >>

\* The timer of the inter-round wait fires: the loop goes on.
TimerFires ==
  /\ pc = "wait"
  /\ UNCHANGED verifyVars
  /\ timer' = 0
  /\ waits' = waits + 1
  /\ LoopIteration(attempt + 1, recordType, maxAttempts)
  /\ UNCHANGED << entry, recordType, intervalSeconds, maxAttempts, belowCount,
                  argv >>

Next ==
  \/ \E rt \in RecordTypes : CheckPropagation(rt)
  \/ \E rt \in RecordTypes, iv \in Intervals, m \in AttemptBudgets :
       MonitorPropagation(rt, iv, m)
  \/ \E p \in inflight : \E answer \in ResolverAnswers(p.method) :
       ProbeComplete(p, answer)
  \/ CheckPropagationResume
  \/ MonitorResume
  \/ TimerFires

Spec == Init /\ [][Next]_vars

TypeOK ==
  /\ pc \in {"idle", "await_all", "monitor_resume", "wait", "done", "rejected"}
  /\ entry \in {"none", "checkPropagation", "monitorPropagation"}
  /\ attempt \in 0..(MaxAttemptsBound + 1)
  /\ rounds \in 0..MaxAttemptsBound
  /\ retval \in {"none", "report", "true", "false"}

\* The poll loop on its own, called with the record type main passes when
\* no type is given.
PollRecordTypes == {mainRecordType(Undefined)}

PollNext ==
  \/ \E rt \in PollRecordTypes, iv \in Intervals, m \in AttemptBudgets :
       MonitorPropagation(rt, iv, m)
  \/ \E p \in inflight : \E answer \in ResolverAnswers(p.method) :
       ProbeComplete(p, answer)
  \/ CheckPropagationResume
  \/ MonitorResume
  \/ TimerFires

PollSpec == Init /\ [][PollNext]_vars

\* The event loop runs every ready continuation, a pending timer fires, and
\* every query is answered or times out with an error.
FairPollSpec ==
  /\ PollSpec
  /\ WF_vars(\E p \in inflight : \E answer \in ResolverAnswers(p.method) :
               ProbeComplete(p, answer))
  /\ WF_vars(CheckPropagationResume)
  /\ WF_vars(MonitorResume)
  /\ WF_vars(TimerFires)

\* The script as run from the command line.
MainNext ==
  \/ \E args \in MainArgs : Main(args)
  \/ \E p \in inflight : \E answer \in ResolverAnswers(p.method) :
       ProbeComplete(p, answer)
  \/ CheckPropagationResume
  \/ MonitorResume
  \/ TimerFires

MainSpec == Init /\ [][MainNext]_vars

(***************************************************************************)
(* verifyDNS: seven record checks with the system resolver, one after the  *)
(* other.                                                                  *)
(***************************************************************************)
\* The calls of checkRecord in verifyDNS, in program order.
VerifyChecks ==
  << [type |-> "A",     resolver |-> "resolve4"],
     [type |-> "AAAA",  resolver |-> "resolve6"],
     [type |-> "CNAME", resolver |-> "resolveCname"],
     [type |-> "MX",    resolver |-> "resolveMx"],
     [type |-> "TXT",   resolver |-> "resolveTxt"],
     [type |-> "NS",    resolver |-> "resolveNs"],
     [type |-> "SOA",   resolver |-> "resolveSoa"] >>

\* What the resolver functions yield; resolveSoa yields one object.
VerifyRecordsOf(resolver) ==
  IF resolver = "resolveSoa"
  THEN << Obj("{\"nsname\":\"ns1.example.org\",\"serial\":1}") >>
  ELSE RecordsOf(resolver)

\* Answers to a record check: records, the two "no such record" errors, and
\* another error.
VerifyAnswers(resolver) ==
  { [kind |-> "records", records |-> VerifyRecordsOf(resolver),
     code |-> Undefined, message |-> Undefined],
    [kind |-> "error", records |-> NoRecords,
     code |-> "ENODATA", message |-> "query ENODATA"],
    [kind |-> "error", records |-> NoRecords,
     code |-> "ENOTFOUND", message |-> "query ENOTFOUND"],
    [kind |-> "error", records |-> NoRecords,
     code |-> "ETIMEOUT", message |-> "query ETIMEOUT"] }

\* checkRecord that handles the two expected codes only and lets any other
\* error escape.
checkRecordRethrow(type, answer) ==
  IF answer.kind = "records"
  THEN [status |-> "fulfilled",
        value  |-> [type |-> type, success |-> TRUE,
                    value |-> answer.records, error |-> Undefined]]
  ELSE IF answer.code = "ENODATA" \/ answer.code = "ENOTFOUND"
       THEN [status |-> "fulfilled",
             value  |-> [type |-> type, success |-> FALSE,
                         value |-> NoRecords, error |-> "No record"]]
       ELSE [status |-> "rejected",
             value  |-> [type |-> type, success |-> FALSE,
                         value |-> NoRecords, error |-> answer.message]]

\* How the promise of checkRecord settles once its query is answered.
checkRecord(type, answer) ==
  IF answer.kind = "records"
  THEN [status |-> "fulfilled",
        value  |-> [type |-> type, success |-> TRUE,
                    value |-> answer.records, error |-> Undefined]]
  ELSE IF answer.code = "ENODATA" \/ answer.code = "ENOTFOUND"
       THEN [status |-> "fulfilled",
             value  |-> [type |-> type, success |-> FALSE,
                         value |-> NoRecords, error |-> "No record"]]
       ELSE [status |-> "fulfilled",
             value  |-> [type |-> type, success |-> FALSE,
                         value |-> NoRecords, error |-> answer.message]]

\* verifyDNS(domain) is called: it runs up to the await of the first check.
VerifyDNS ==
  /\ pc = "idle"
  /\ entry' = "verifyDNS"
  /\ vresults' = << >>
  /\ vpending' = VerifyChecks[1].type
  /\ vstarted' = << VerifyChecks[1].type >>
  /\ vanswers' = vanswers
  /\ pc' = "verify_await"
  /\ UNCHANGED retval
  /\ UNCHANGED fanOutVars

\* The query of the check under way is answered: checkRecord returns, its
\* result is pushed, and verifyDNS goes on to the next check or returns.
RecordAnswered(answer) ==
  /\ pc = "verify_await"
  /\ vpending /= "none"
  /\ LET k       == Len(vresults) + 1
         settled == checkRecord(VerifyChecks[k].type, answer)
     IN  /\ answer \in VerifyAnswers(VerifyChecks[k].resolver)
         /\ vanswers' = Append(vanswers, answer)
         /\ IF settled.status = "fulfilled"
            THEN /\ vresults' = Append(vresults, settled.value)
                 /\ IF k < Len(VerifyChecks)
                    THEN /\ vpending' = VerifyChecks[k + 1].type
                         /\ vstarted' = Append(vstarted, VerifyChecks[k + 1].type)
                         /\ pc' = pc
                         /\ retval' = retval
                    ELSE /\ vpending' = "none"
                         /\ vstarted' = vstarted
                         /\ pc' = "done"
                         /\ retval' = "results"
            ELSE /\ pc' = "rejected"
                 /\ vpending' = "none"
                 /\ UNCHANGED << vresults, vstarted, retval >>
  /\ UNCHANGED entry
  /\ UNCHANGED fanOutVars

VerifyNext ==
  \/ VerifyDNS
  \/ \E r \in ResolverMethods \cup {"resolveSoa"} :
       \E answer \in VerifyAnswers(r) : RecordAnswered(answer)

VerifySpec == Init /\ [][VerifyNext]_vars

(***************************************************************************)
(* Properties.                                                             *)
(***************************************************************************)
Monitoring == entry = "monitorPropagation"

\* Servers whose probe of the current round was answered with records.
AnsweredWithRecords == {i \in ServerIndex : answers[i] = "records"}

\* C1: in every report, percentage is the integer nearest to
\* 100 * propagated / total (halves up) and lies in 0..100, propagated is the
\* number of outcomes with success = true (the probes that were answered
\* with records), and total is the number of declared servers.
C1_ReportArithmetic ==
  report /= NoReport =>
    /\ report.total = Len(DNS_SERVERS)
    /\ report.propagated =
         Cardinality({i \in ServerIndex : report.results[i].success})
    /\ report.propagated = Cardinality(AnsweredWithRecords)
    /\ report.percentage \in 0..100
    /\ 2 * report.total * report.percentage - report.total
         <= 200 * report.propagated
    /\ 200 * report.propagated
         < 2 * report.total * report.percentage + report.total

\* A report of one success out of six: 16.67 is rounded up to 17.
C1_Witness ==
  /\ report /= NoReport
  /\ report.propagated = 1
  /\ report.percentage = 17

\* C2: the results of a report hold exactly one outcome per declared server,
\* the i-th being the outcome of the i-th server of DNS_SERVERS, in whatever
\* order the probes completed; already while the round runs, each outcome
\* collected sits in the slot of its server.
C2_DeclaredOrder ==
  /\ \A i \in ServerIndex :
       results[i] /= Pending => results[i].server = DNS_SERVERS[i].name
  /\ report /= NoReport =>
       /\ Len(report.results) = Len(DNS_SERVERS)
       /\ \A i \in ServerIndex :
            /\ report.results[i].server = DNS_SERVERS[i].name
            /\ report.results[i].success = (answers[i] = "records")

\* A report of a round whose probes did not complete in declared order and
\* did not all fare alike.
C2_Witness ==
  /\ report /= NoReport
  /\ outOfOrder
  /\ report.results[1].success
  /\ ~ report.results[2].success

\* The call is not rejected, and each failed probe has its failure outcome.
C3_FailureOutcome ==
  /\ pc /= "rejected"
  /\ \A i \in ServerIndex :
       answers[i] = "error" =>
         /\ results[i].server = DNS_SERVERS[i].name
         /\ results[i].success = FALSE
         /\ results[i].error \in {"ENOTFOUND", "Timeout"}

\* A step answers at most one probe and leaves the recorded outcomes alone.
C3_SiblingsKept ==
  /\ Cardinality(inflight \ inflight') <= 1
  /\ \A p \in inflight \ inflight' : answers'[p.index] /= "none"
  /\ \A i \in ServerIndex :
       (answers[i] /= "none" /\ rounds' = rounds) => results'[i] = results[i]

\* C3: a probe that fails becomes an outcome with success = false and an
\* error reason; the call as a whole is never rejected, and a step takes
\* nothing out of flight but the one probe that was answered.
C3_FailuresContained == [] C3_FailureOutcome /\ [][C3_SiblingsKept]_vars

\* A report was produced although every probe of the round failed.
C3_Witness ==
  /\ report /= NoReport
  /\ pc = "done"
  /\ \A i \in ServerIndex : answers[i] = "error"
  /\ report.results[1].error = "ENOTFOUND"
  /\ report.results[2].error = "Timeout"

\* A report exists only when no probe of its round is left.
C4_ReportAfterAll ==
  report /= NoReport =>
    /\ \A p \in inflight : p.round /= rounds
    /\ \A i \in ServerIndex :
         /\ answers[i] /= "none"
         /\ report.results[i] /= Pending
    /\ report.results = results

\* The step that starts a round sends the probes of all servers.
C4_AllStarted ==
  rounds' /= rounds =>
    /\ {p.index : p \in {q \in inflight' : q.round = rounds'}} = ServerIndex
    /\ \A i \in ServerIndex : results'[i] = Pending /\ answers'[i] = "none"
    /\ report' = NoReport

\* C4: a round sends all its probes before any of them is awaited, and a
\* report exists only when every probe of its round has finished: none is
\* still in flight and the report holds the outcome of each.
C4_WaitForAll == [] C4_ReportAfterAll /\ [][C4_AllStarted]_vars

\* The report of a single fan-out in which three probes succeeded.
C4_Witness ==
  /\ report /= NoReport
  /\ entry = "checkPropagation"
  /\ pc = "done"
  /\ report.propagated = 3
  /\ inflight = {}

\* The first round of a poll run has reported 100.
FirstRoundFull == Monitoring /\ rounds = 1 /\ report.percentage = 100

\* After a first round of 100 nothing is pending and nothing was waited for.
C5_NoWaitNoRound ==
  FirstRoundFull =>
    /\ pc \in {"monitor_resume", "done"}
    /\ attempt = 1
    /\ waits = 0
    /\ timer = 0
    /\ inflight = {}
    /\ pc = "done" => retval = "true"

\* The step after the report of such a round returns true.
C5_ReturnsAtOnce ==
  (FirstRoundFull /\ pc = "monitor_resume") =>
    /\ pc' = "done"
    /\ retval' = "true"
    /\ rounds' = rounds
    /\ waits' = waits
    /\ timer' = 0

\* C5: when the first round reports 100, monitorPropagation converges on
\* attempt 1: its next step returns true, no timer is ever set, no wait
\* elapses and no second round starts; and it does take that step.
C5_ConvergesOnFirst ==
  /\ [] C5_NoWaitNoRound
  /\ [][C5_ReturnsAtOnce]_vars
  /\ (FirstRoundFull ~> (pc = "done" /\ retval = "true" /\ rounds = 1))

\* The poll loop has returned true after a single round.
C5_Witness ==
  /\ FirstRoundFull
  /\ pc = "done"
  /\ retval = "true"
  /\ maxAttempts = 2

\* Counts of rounds and waits, and the pending timer, of a poll run.
C6_Exhausted ==
  Monitoring =>
    /\ (pc = "done" /\ maxAttempts >= 1 /\ belowCount = rounds) =>
         /\ retval = "false"
         /\ rounds = maxAttempts
         /\ waits = maxAttempts - 1
    /\ rounds >= 1 => waits = rounds - 1
    /\ pc = "wait" =>
         /\ timer = intervalSeconds * 1000
         /\ report /= NoReport
         /\ rounds < maxAttempts
    /\ pc /= "wait" => timer = 0

\* A wait elapses only by the timer firing, which starts the next round.
C6_WaitThenRound ==
  waits' /= waits =>
    /\ pc = "wait"
    /\ waits' = waits + 1
    /\ rounds' = rounds + 1
    /\ pc' = "await_all"

\* C6: a poll run (maxAttempts >= 1) in which every round reported less than
\* 100 ends with exactly maxAttempts rounds and maxAttempts - 1 waits and
\* returns false; every wait has the delay intervalSeconds (in ms), lies
\* between two rounds and is followed at once by the next round, and no wait
\* follows the final round; and such a run does end.
C6_AllRoundsBelow ==
  /\ [] C6_Exhausted
  /\ [][C6_WaitThenRound]_vars
  /\ ((Monitoring /\ maxAttempts >= 1) ~>
        (pc = "done" /\ (belowCount = rounds => retval = "false")))

\* A poll run of two rounds, both below 100, has ended after one wait.
C6_Witness ==
  /\ Monitoring
  /\ pc = "done"
  /\ retval = "false"
  /\ maxAttempts = 2
  /\ rounds = 2
  /\ belowCount = 2
  /\ waits = 1
  /\ intervalSeconds = 30

\* C7: with maxAttempts = 1 the poll loop runs one round and never waits,
\* whatever that round reports.
C7_SingleAttempt ==
  (Monitoring /\ maxAttempts = 1) =>
    /\ rounds = 1
    /\ attempt \in {1, 2}
    /\ waits = 0
    /\ timer = 0
    /\ pc \in {"await_all", "monitor_resume", "done"}
    /\ pc = "done" => (retval = "true" <=> report.percentage = 100)

\* A single-attempt poll run has ended on a partial report.
C7_Witness ==
  /\ Monitoring
  /\ maxAttempts = 1
  /\ pc = "done"
  /\ report.percentage = 50
  /\ retval = "false"

\* Only probes of the current round are in flight.
C8_OneRoundInFlight ==
  /\ \A p \in inflight : p.round = rounds
  /\ pc \in {"monitor_resume", "wait", "done"} => inflight = {}

\* A further round starts only by the timer of the wait firing.
C8_RoundAfterWait ==
  (rounds >= 1 /\ rounds' /= rounds) =>
    /\ rounds' = rounds + 1
    /\ pc = "wait"
    /\ report /= NoReport
    /\ AllSettled(report.results)
    /\ inflight = {}
    /\ timer = intervalSeconds * 1000
    /\ waits' = waits + 1
    /\ timer' = 0

\* C8: rounds are sequential: only probes of the current round are ever in
\* flight, and a further round starts only from the wait that follows the
\* report of the previous round, when none of its probes is left and the
\* timer has fired.
C8_SequentialRounds == [] C8_OneRoundInFlight /\ [][C8_RoundAfterWait]_vars

\* The second round of a poll run is under way.
C8_Witness ==
  /\ Monitoring
  /\ rounds = 2
  /\ waits = 1
  /\ Cardinality(inflight) = 3

\* What a poll run has returned, against what its rounds reported.
C9_Outcome ==
  (Monitoring /\ maxAttempts >= 1) =>
    /\ pc /= "rejected"
    /\ retval \in {"none", "true", "false"}
    /\ (retval /= "none") <=> (pc = "done")
    /\ retval = "true" <=>
         (pc = "done" /\ report.percentage = 100)
    /\ retval = "true" =>
         /\ rounds <= maxAttempts
         /\ attempt = rounds
         /\ belowCount = rounds - 1
    /\ retval = "false" <=>
         (pc = "done" /\ rounds = maxAttempts /\ belowCount = maxAttempts)
    /\ belowCount < rounds => (belowCount = rounds - 1 /\ pc /= "wait")

\* A finished run stays finished.
C9_Final == (pc = "done") => (pc' = "done" /\ retval' = retval)

\* C9: a poll run (maxAttempts >= 1) ends, and it ends by returning true or
\* false, never by an error: true exactly when the last round reported 100,
\* which then is round number <= maxAttempts with all earlier rounds below
\* 100; false exactly when all maxAttempts rounds reported below 100.
C9_Terminates ==
  /\ [] C9_Outcome
  /\ [][C9_Final]_vars
  /\ ((Monitoring /\ maxAttempts >= 1) ~> (pc = "done"))

\* A poll run has returned true on its second and last permitted round.
C9_Witness ==
  /\ Monitoring
  /\ pc = "done"
  /\ retval = "true"
  /\ maxAttempts = 2
  /\ rounds = 2
  /\ belowCount = 1

\* The resolver method each record type stands for.
C10_Expected(rt) ==
  CASE rt = "A"     -> "resolve4"
    [] rt = "AAAA"  -> "resolve6"
    [] rt = "CNAME" -> "resolveCname"
    [] rt = "MX"    -> "resolveMx"
    [] rt = "TXT"   -> "resolveTxt"
    [] rt = "NS"    -> "resolveNs"
    [] OTHER        -> "resolve4"

\* C10: each supported record type queries with its own operation and a
\* type outside the table with the A-record one, each query going to the
\* address of its server; the call is not rejected, and a successful
\* outcome carries the answer of that operation (for an unsupported type:
\* the A-record answer).
C10_MethodSelection ==
  /\ pc /= "rejected"
  /\ \A p \in inflight :
       /\ p.method = C10_Expected(recordType)
       /\ p.ip = DNS_SERVERS[p.index].ip
  /\ \A i \in ServerIndex :
       results[i].success =>
         results[i].value = FormatResult(RecordsOf(C10_Expected(recordType)))
  /\ (recordType \notin {"A", "AAAA", "CNAME", "MX", "TXT", "NS", Undefined}) =>
       \A i \in ServerIndex :
         results[i].success =>
           results[i].value = "93.184.216.34, 93.184.216.35"

\* The report for the unsupported type SRV, with some successes.
C10_Witness ==
  /\ recordType = "SRV"
  /\ report /= NoReport
  /\ pc = "done"
  /\ report.propagated = 4
  /\ report.results[1].value = "93.184.216.34, 93.184.216.35"

\* The report for MX carries the serialized MX entries.
C10_WitnessMX ==
  /\ recordType = "MX"
  /\ report /= NoReport
  /\ report.results[1].value = "{\"exchange\":\"mx.example.org\",\"priority\":10}"

\* The statement that a report has two qualitative outcomes only: full
\* propagation, and otherwise partial propagation with the 48-hours
\* guidance.
C11_TwoOutcomes ==
  report /= NoReport =>
    \/ report.percentage = 100 /\ report.verdict = "fully propagated"
    \/ /\ report.percentage < 100
       /\ report.verdict /= "fully propagated"
       /\ report.advice = "This may take up to 48 hours."

\* C11 (amended): every report surfaces exactly one of three qualitative
\* outcomes, fixed by the percentage: full propagation at 100; partial
\* propagation from 50 to 99, with the advice to wait a few minutes; not yet
\* propagated below 50, with the guidance that it may take up to 48 hours.
C11_ThreeOutcomes ==
  report /= NoReport =>
    /\ report.percentage = 100 =>
         report.verdict = "fully propagated" /\ report.advice = "none"
    /\ (report.percentage >= 50 /\ report.percentage < 100) =>
         /\ report.verdict = "partially propagated"
         /\ report.advice = "Wait a few minutes..."
    /\ report.percentage < 50 =>
         /\ report.verdict = "not yet propagated"
         /\ report.advice = "This may take up to 48 hours."
    /\ report.propagated >= 3 <=> report.verdict /= "not yet propagated"

\* A report of four successes out of six: partial, without the 48-hours text.
C11_Witness ==
  /\ report /= NoReport
  /\ report.propagated = 4
  /\ report.percentage = 67
  /\ report.verdict = "partially propagated"

\* Within a round an answer, failed or not, is final: it sends no query.
C12_AnswerIsFinal ==
  /\ issued' /= issued =>
       /\ rounds' = rounds + 1
       /\ issued' = issued + Len(DNS_SERVERS)
  /\ rounds' = rounds =>
       /\ sent' = sent
       /\ inflight' \subseteq inflight
       /\ \A i \in ServerIndex :
            answers[i] /= "none" =>
              answers'[i] = answers[i] /\ results'[i] = results[i]

\* Each server of the round got one query, and the run has sent six per
\* round.
C12_OncePerServer ==
  /\ (rounds >= 1 /\ pc /= "rejected") => \A i \in ServerIndex : sent[i] = 1
  /\ issued = rounds * Len(DNS_SERVERS)
  /\ \A i \in ServerIndex :
       Cardinality({p \in inflight : p.index = i /\ p.round = rounds})
         = IF rounds >= 1 /\ answers[i] = "none" THEN 1 ELSE 0

\* C12: in each fan-out round every declared server is queried exactly
\* once, and an answer, a failure included, is final for the round: no query
\* is sent again; so a run of r rounds has sent r * |DNS_SERVERS| queries.
C12_NoRetry == [] C12_OncePerServer /\ [][C12_AnswerIsFinal]_vars

\* A poll run of two rounds has ended after twelve queries, the last round
\* with failed probes.
C12_Witness ==
  /\ Monitoring
  /\ pc = "done"
  /\ rounds = 2
  /\ issued = 12
  /\ answers[1] = "error"
  /\ answers[6] = "error"

\* main has run with some command line.
ViaMain == argv /= NoArgv

\* No record type was given: the command line has no second argument, or
\* --monitor stands in its place.
NoTypeGiven == Len(argv) < 2 \/ argv[2] = "--monitor"

\* The mode main chose, the parameters of the poll loop and the resolver
\* operation in use.
C13_Mode ==
  ViaMain =>
    /\ entry \in {"checkPropagation", "monitorPropagation"}
    /\ entry = "monitorPropagation" <=>
         (\E k \in 1..Len(argv) : argv[k] = "--monitor")
    /\ entry = "monitorPropagation" =>
         /\ intervalSeconds = 30
         /\ maxAttempts = 20
         /\ rounds \in 1..20
         /\ pc = "wait" => timer = 30000
         /\ retval \in {"none", "true", "false"}
    /\ entry = "checkPropagation" =>
         /\ rounds = 1
         /\ waits = 0
         /\ timer = 0
         /\ pc \in {"await_all", "done"}
         /\ retval \in {"none", "report"}
    /\ NoTypeGiven => \A p \in inflight : p.method = "resolve4"
    /\ NoTypeGiven =>
         \A i \in ServerIndex :
           results[i].success =>
             results[i].value = "93.184.216.34, 93.184.216.35"
    /\ pc /= "rejected"

\* The mode and the command line stay as they were chosen.
C13_ModeKept == ViaMain => (entry' = entry /\ argv' = argv)

\* C13: a run of main is in exactly one mode: the poll loop, with interval
\* 30 s and 20 attempts, exactly when --monitor is among the arguments, and
\* else one single fan-out; and when no record type is given, also when
\* --monitor directly follows the domain, the queries use the A-record
\* operation.
C13_CommandLine == [] C13_Mode /\ [][C13_ModeKept]_vars

\* `mydomain.com --monitor` has run all twenty rounds with the A-record
\* operation and given up.
C13_Witness ==
  /\ argv = << "mydomain.com", "--monitor" >>
  /\ pc = "done"
  /\ retval = "false"
  /\ rounds = 20
  /\ waits = 19
  /\ report.results[1].value = "93.184.216.34, 93.184.216.35"

\* C14: with the six declared servers a report has percentage 0 exactly
\* when every probe of the round failed and 100 exactly when every probe
\* succeeded; so the poll loop has returned true only after a round in which
\* all six servers answered with records.
C14_Extremes ==
  /\ Len(DNS_SERVERS) = 6
  /\ report /= NoReport =>
       /\ report.percentage = 0 <=> (\A i \in ServerIndex : answers[i] = "error")
       /\ report.percentage = 100 <=>
            (\A i \in ServerIndex : answers[i] = "records")
       /\ report.propagated = 5 => report.percentage = 83
       /\ report.propagated = 1 => report.percentage = 17
  /\ (Monitoring /\ retval = "true") =>
       \A i \in ServerIndex : answers[i] = "records" /\ results[i].success

\* A poll run gave up on a last round of five successes out of six: 83, not
\* lifted to 100.
C14_Witness ==
  /\ Monitoring
  /\ pc = "done"
  /\ retval = "false"
  /\ report.propagated = 5
  /\ report.percentage = 83
  /\ rounds = 2

\* The order in which verifyDNS checks the record types.
C15_Order == << "A", "AAAA", "CNAME", "MX", "TXT", "NS", "SOA" >>

\* The checks started and the results collected follow the order, one query
\* at a time, and each result tells what its query was answered.
C15_ResultsSoFar ==
  entry = "verifyDNS" =>
    /\ pc \in {"verify_await", "done"}
    /\ Len(vstarted) <= 7
    /\ vstarted = SubSeq(C15_Order, 1, Len(vstarted))
    /\ Len(vanswers) = Len(vresults)
    /\ pc = "verify_await" =>
         /\ Len(vstarted) = Len(vresults) + 1
         /\ vpending = C15_Order[Len(vstarted)]
    /\ pc = "done" =>
         /\ Len(vresults) = 7
         /\ Len(vstarted) = 7
         /\ vpending = "none"
         /\ retval = "results"
    /\ \A k \in 1..Len(vresults) :
         /\ vresults[k].type = C15_Order[k]
         /\ vanswers[k].kind = "records" =>
              vresults[k].success /\ vresults[k].value = vanswers[k].records
         /\ (vanswers[k].kind = "error"
               /\ vanswers[k].code \in {"ENODATA", "ENOTFOUND"}) =>
              ~ vresults[k].success /\ vresults[k].error = "No record"
         /\ (vanswers[k].kind = "error"
               /\ vanswers[k].code \notin {"ENODATA", "ENOTFOUND"}) =>
              ~ vresults[k].success /\ vresults[k].error = vanswers[k].message

\* A check starts only when the one before has its result, and results are
\* only added.
C15_OneAtATime ==
  /\ vstarted' /= vstarted =>
       /\ Len(vstarted') = Len(vstarted) + 1
       /\ Len(vresults') = Len(vstarted)
  /\ Len(vresults') >= Len(vresults)
  /\ SubSeq(vresults', 1, Len(vresults)) = vresults

\* C15: verifyDNS runs its seven checks one after the other in the order A,
\* AAAA, CNAME, MX, TXT, NS, SOA, each query starting only when the previous
\* check has finished; no failure stops the later checks, and it returns
\* seven results in that order: success = false with error "No record" for
\* ENODATA and ENOTFOUND, and with the error message for any other error.
C15_SevenChecks == [] C15_ResultsSoFar /\ [][C15_OneAtATime]_vars

\* verifyDNS has returned; the first check found no record, the second
\* failed otherwise, and the last one succeeded.
C15_Witness ==
  /\ entry = "verifyDNS"
  /\ pc = "done"
  /\ Len(vresults) = 7
  /\ vresults[1].error = "No record"
  /\ vanswers[1].code = "ENODATA"
  /\ vresults[2].error = "query ETIMEOUT"
  /\ vresults[7].success

====
